---------------------------- MODULE Spec2Model ----------------------------
(***************************************************************************)
(* Model of scraper.py: the URL filter (is_valid_url), link discovery      *)
(* (extract_links), content extraction, chunking and the crawl loop of     *)
(* main().  URLs and texts are TLA+ strings, parsed character by character *)
(* the way urllib.parse does it.                                           *)
(***************************************************************************)
EXTENDS Integers, Sequences, FiniteSets, TLC

VARIABLES
    urls_to_visit,      \* main: FIFO list of pending URLs
    visited_urls,       \* main: set of URLs already handled
    pages_scraped_count,\* main: counter of pages consumed from the budget
    all_chunked_data,   \* main: output collection (list of chunk records)
    current_url,        \* main: URL popped in the current iteration
    html_content,       \* main: result of fetch_page(current_url)
    max_pages,          \* the page budget of the run (MAX_PAGES_TO_SCRAPE)
    pc,                 \* position of main(): loop, fetch, branch, sleep, done
    fetched,            \* history: URLs passed to fetch_page, in call order
    scraped,            \* history: one record per page processed, in order
    enqueued,           \* history: URLs ever put on urls_to_visit, in order
    sleeps,             \* history: number of time.sleep(REQUEST_DELAY) calls
    sleepsAtFetch,      \* history: value of sleeps at each fetch_page call
    cand,               \* URL filter check: the components of a candidate
    url,                \* URL filter check: the candidate as a string
    verdict             \* URL filter check: "unchecked" or is_valid_url(url)

crawlVars == <<urls_to_visit, visited_urls, pages_scraped_count,
               all_chunked_data, current_url, html_content, max_pages, pc,
               fetched, scraped, enqueued, sleeps, sleepsAtFetch>>
filterVars == <<cand, url, verdict>>
vars == <<crawlVars, filterVars>>

---------------------------------------------------------------------------
(* Bounds of the model *)

\* Largest page budget a run is started with.
MaxBudget == 4

---------------------------------------------------------------------------
(* Strings *)

\* F(v) with the argument v evaluated once, before the call.
Call(F(_), v) == CHOOSE r \in { F(x) : x \in {v} } : TRUE

\* The least element of a non-empty set of integers, 0 for the empty set.
MinOrZero(I) == IF I = {} THEN 0 ELSE CHOOSE i \in I : \A j \in I : i <= j

MaxOrZero(I) == IF I = {} THEN 0 ELSE CHOOSE i \in I : \A j \in I : i >= j

\* The indices of s that hold the character c.
Occurrences(s, c) == { i \in 1..Len(s) : SubSeq(s, i, i) = c }

\* s.find(c): 1-based index of the first occurrence of character c, 0 if none.
Find(s, c) == Call(MinOrZero, Occurrences(s, c))

\* s.rfind(c): 1-based index of the last occurrence of character c, 0 if none.
RFind(s, c) == Call(MaxOrZero, Occurrences(s, c))

\* `sub in s'
Contains(s, sub) ==
    \E i \in 1..(Len(s) - Len(sub) + 1) : SubSeq(s, i, i + Len(sub) - 1) = sub

\* s.endswith(suf)
EndsWith(s, suf) ==
    /\ Len(suf) <= Len(s)
    /\ SubSeq(s, Len(s) - Len(suf) + 1, Len(s)) = suf

\* s.startswith(pre)
StartsWith(s, pre) ==
    /\ Len(pre) <= Len(s)
    /\ SubSeq(s, 1, Len(pre)) = pre

\* s[i:] for a 1-based i
From(s, i) == SubSeq(s, i, Len(s))

LowerLetters == "abcdefghijklmnopqrstuvwxyz"
UpperLetters == "ABCDEFGHIJKLMNOPQRSTUVWXYZ"

IsAlpha(c) == Find(LowerLetters, c) > 0 \/ Find(UpperLetters, c) > 0

\* urllib.parse.scheme_chars: letters, digits and "+-."
IsSchemeChar(c) == IsAlpha(c) \/ Find("0123456789+-.", c) > 0

\* str.lower() on one character
LowerChar(c) ==
    IF Find(UpperLetters, c) > 0
    THEN SubSeq(LowerLetters, Find(UpperLetters, c), Find(UpperLetters, c))
    ELSE c

RECURSIVE Lower(_)
Lower(s) ==
    IF s = "" THEN "" ELSE Call(LowerChar, SubSeq(s, 1, 1)) \o Call(Lower, Tail(s))

---------------------------------------------------------------------------
(* urllib.parse, as used by is_valid_url and extract_links *)

BASE_URL == "https://www.madewithnestle.ca/"

\* The end of the netloc: the index of the first of "/", "?", "#" after the
\* leading "//", or Len(s)+1.
NetlocEnd(s) ==
    Call(MinOrZero, { i \in 3..(Len(s) + 1) :
                        i = Len(s) + 1 \/ SubSeq(s, i, i) \in {"/", "?", "#"} })

\* s.split(c, 1) at the occurrence of c found at index i (0: c is absent):
\* <<the part before, the part after>>.
SplitAt(s, i) == IF i > 0 THEN <<SubSeq(s, 1, i - 1), From(s, i + 1)>> ELSE <<s, "">>

SplitOn(s, c) == SplitAt(s, Find(s, c))

\* The scheme split of urlsplit, i being u.find(':'): <<scheme, rest>>.
SplitSchemeAt(u, i) ==
    IF /\ i > 1
       /\ IsAlpha(SubSeq(u, 1, 1))
       /\ \A k \in 1..(i - 1) : IsSchemeChar(SubSeq(u, k, k))
    THEN <<Lower(SubSeq(u, 1, i - 1)), From(u, i + 1)>>
    ELSE <<"", u>>

SplitScheme(u) == SplitSchemeAt(u, Find(u, ":"))

\* The netloc split of urlsplit, e being the end of the netloc:
\* <<netloc, rest>>.
SplitNetlocAt(rest, e) == <<SubSeq(rest, 3, e - 1), From(rest, e)>>

SplitNetloc(rest) ==
    IF StartsWith(rest, "//") THEN SplitNetlocAt(rest, NetlocEnd(rest))
    ELSE <<"", rest>>

\* urlsplit after the scheme split ss = <<scheme, url>>:
\* <<scheme, netloc, url>>
WithNetloc(ss) == <<ss[1]>> \o SplitNetloc(ss[2])

\* urlsplit after the netloc split sn = <<scheme, netloc, url>>:
\* <<scheme, netloc, url, fragment>>
WithFragment(sn) == <<sn[1], sn[2]>> \o SplitOn(sn[3], "#")

\* urlsplit after the fragment split sf = <<scheme, netloc, url, fragment>>:
\* <<scheme, netloc, path, query, fragment>>
WithQuery(sf) == <<sf[1], sf[2]>> \o SplitOn(sf[3], "?") \o <<sf[4]>>

\* The result of urlparse.  No ";" parameters are modelled: no URL of the
\* model holds a ";".
ParseResult(t) ==
    [scheme |-> t[1], netloc |-> t[2], path |-> t[3], query |-> t[4],
     fragment |-> t[5]]

urlparse(u) ==
    Call(ParseResult, Call(WithQuery, Call(WithFragment, Call(WithNetloc, SplitScheme(u)))))

\* The members of urllib.parse.uses_netloc and uses_relative that the URLs of
\* the model can carry.
uses_netloc == {"", "ftp", "http", "https"}
uses_relative == {"", "ftp", "http", "https"}

\* urlunparse(p)
urlunparse(p) ==
    (IF p.scheme # "" THEN p.scheme \o ":" ELSE "")
    \o (IF p.netloc # "" \/ (p.scheme # "" /\ p.scheme \in uses_netloc
                             /\ ~StartsWith(p.path, "//"))
        THEN "//" \o p.netloc
             \o (IF p.path # "" /\ ~StartsWith(p.path, "/") THEN "/" ELSE "")
        ELSE "")
    \o p.path
    \o (IF p.query # "" THEN "?" \o p.query ELSE "")
    \o (IF p.fragment # "" THEN "#" \o p.fragment ELSE "")

DisallowedExtensions ==
    {".pdf", ".jpg", ".jpeg", ".png", ".gif", ".zip", ".mp4", ".mov", ".avi"}

is_valid_url(u) ==
    \E parsed_base \in {urlparse(BASE_URL)} : \E parsed_url \in {urlparse(u)} :
        /\ parsed_url.scheme \in {"http", "https"}
        /\ parsed_url.netloc = parsed_base.netloc
        /\ ~(\E x \in DisallowedExtensions : EndsWith(parsed_url.path, x))
        /\ parsed_url.query = ""
        /\ ~Contains(u, "mailto:")
        /\ ~Contains(u, "tel:")


\* bpath with its last segment removed, joined with a relative path; a path
\* that starts with "/" replaces it.  Dot segments ("." and "..") and empty
\* inner segments are not resolved: no href of the model holds one.
MergePaths(bpath, path) ==
    IF StartsWith(path, "/") THEN path
    ELSE SubSeq(bpath, 1, RFind(bpath, "/")) \o path

OrRoot(path) == IF path = "" THEN "/" ELSE path

\* urlparse(url, bscheme): the scheme defaults to the scheme of the base
WithDefaultScheme(r, bscheme) ==
    IF r.scheme = "" THEN [r EXCEPT !.scheme = bscheme] ELSE r

\* urljoin once base and href are parsed: t = <<href, b, r>>, r parsed with
\* the scheme of the base as its default scheme.
JoinParsed(t) ==
    IF t[3].scheme # t[2].scheme \/ t[3].scheme \notin uses_relative THEN t[1]
    ELSE IF t[3].scheme \in uses_netloc /\ t[3].netloc # "" THEN urlunparse(t[3])
    ELSE IF t[3].path = ""
    THEN Call(urlunparse,
              [t[3] EXCEPT !.netloc = t[2].netloc, !.path = t[2].path,
                           !.query = IF t[3].query = "" THEN t[2].query
                                     ELSE t[3].query])
    ELSE Call(urlunparse,
              [t[3] EXCEPT !.netloc = t[2].netloc,
                           !.path = OrRoot(MergePaths(t[2].path, t[3].path))])

\* t = <<href, urlparse(base), urlparse(href)>>
JoinWithBase(t) == JoinParsed(<<t[1], t[2], WithDefaultScheme(t[3], t[2].scheme)>>)

urljoin(base, href) ==
    IF base = "" THEN href
    ELSE IF href = "" THEN base
    ELSE Call(JoinWithBase, <<href, urlparse(base), urlparse(href)>>)

\* absolute_link.split('#')[0]
StripFragment(u) == SplitOn(u, "#")[1]

\* An HTML document is modelled by what the parser finds in it: the text of
\* its <title> (<<>> when there is none), the text-bearing elements of its
\* body in document order and the href values of its <a href> tags in
\* document order.
\* extract_links up to `return list(links)': the set of links collected.
extract_links(html, cur) ==
    { StripFragment(a) :
        a \in { x \in { urljoin(cur, html.anchors[i]) : i \in 1..Len(html.anchors) } :
                  is_valid_url(x) } }

\* The lists list(links) can be: a set has no defined iteration order, so
\* every ordering of its elements.
ListOfSet(S) ==
    { f \in [1..Cardinality(S) -> S] : \A i, j \in 1..Cardinality(S) : i # j => f[i] # f[j] }

---------------------------------------------------------------------------
(* Content extraction and chunking *)

IsSpace(c) == c \in {" ", "\n", "\t"}

RECURSIVE DropSpaces(_)
DropSpaces(s) ==
    IF s # "" /\ IsSpace(SubSeq(s, 1, 1)) THEN Call(DropSpaces, Tail(s)) ELSE s

\* re.sub(r'\s+', ' ', text)
RECURSIVE CollapseSpaces(_)
CollapseSpaces(s) ==
    IF s = "" THEN ""
    ELSE IF IsSpace(SubSeq(s, 1, 1)) THEN " " \o Call(CollapseSpaces, DropSpaces(s))
    ELSE SubSeq(s, 1, 1) \o Call(CollapseSpaces, Tail(s))

\* text.strip() of a text whose whitespace runs are single spaces
RStrip(s) == IF EndsWith(s, " ") THEN SubSeq(s, 1, Len(s) - 1) ELSE s

LStrip(s) == IF StartsWith(s, " ") THEN Tail(s) ELSE s

Strip(s) == Call(RStrip, LStrip(s))

clean_text(text) == Call(Strip, CollapseSpaces(text))

\* len(text.split()) of a cleaned text
WordCount(text) == IF text = "" THEN 0 ELSE Cardinality(Occurrences(text, " ")) + 1

BoilerplateTags == {"header", "footer", "nav", "aside", "script", "style"}
TextTags == {"h1", "h2", "h3", "h4", "h5", "h6", "p", "li"}

\* "\n".join(parts)
RECURSIVE JoinLines(_)
JoinLines(parts) ==
    IF parts = <<>> THEN ""
    ELSE IF Len(parts) = 1 THEN parts[1]
    ELSE parts[1] \o "\n" \o JoinLines(Tail(parts))

\* `if text and len(text.split()) > 3'
IsMeaningful(text) == text # "" /\ WordCount(text) > 3

\* The texts appended to extracted_texts by the general extraction loop.
RECURSIVE ExtractedTexts(_)
ExtractedTexts(elems) ==
    IF elems = <<>> THEN <<>>
    ELSE (IF /\ Head(elems).tag \notin BoilerplateTags
             /\ Head(elems).tag \in TextTags
             /\ Call(IsMeaningful, clean_text(Head(elems).text))
          THEN <<clean_text(Head(elems).text)>>
          ELSE <<>>)
         \o ExtractedTexts(Tail(elems))

\* soup.title.string is None for a <title> without text, and clean_text(None)
\* raises TypeError.
TitleRaises(html) == html.title = <<"">>

\* extract_meaningful_content: <<title, full_page_text>>.  The elements of a
\* document are children of <body> and carry no class or id, so the content
\* area is the <body> fallback and the recipe/product extractors find nothing.
extract_meaningful_content(html) ==
    <<IF html.title = <<>> THEN clean_text("No Title") ELSE clean_text(html.title[1]),
      Call(JoinLines, ExtractedTexts(html.elems))>>

\* The outcomes text_splitter.create_documents([page_text]) is modelled to
\* have: the whole text as one document, or the text cut at its first "\n".
create_documents(page_text) ==
    {<<page_text>>} \cup
    (IF Find(page_text, "\n") > 0
     THEN {<<SubSeq(page_text, 1, Find(page_text, "\n") - 1),
             From(page_text, Find(page_text, "\n") + 1)>>}
     ELSE {})

\* chunk_page_content, given the documents the splitter returned.
chunk_page_content(title, page_text, u, docs) ==
    IF page_text = "" THEN <<>>
    ELSE [i \in 1..Len(docs) |->
            [url |-> u, title |-> title, chunk_id |-> i - 1, text |-> docs[i]]]

---------------------------------------------------------------------------
(* The site: what fetch_page can return *)

Element(tag, text) == [tag |-> tag, text |-> text]

Page(title, elems, anchors) ==
    [empty |-> FALSE, title |-> title, elems |-> elems, anchors |-> anchors]

\* response.text == "": a successful response with an empty body.
EmptyText == [empty |-> TRUE, title |-> <<>>, elems |-> <<>>, anchors |-> <<>>]

HomePage ==
    Page(<<"  Made with   Nestle ">>,
         <<Element("h1", "Welcome to  our recipe collection"),
           Element("p", "Too short")>>,
         <<"/recipes", "/products", "/recipes#top", "/recipes">>)

RecipesPage ==
    Page(<<"Recipes">>,
         <<Element("p", "Browse all of our cookie recipes"),
           Element("li", "Classic chocolate chip cookie recipe")>>,
         <<"https://www.madewithnestle.ca/products", "/", "/#top">>)

\* Everything of this page lives in <nav>; its only links in scope lead to
\* the page itself and to one further page.
NavOnlyPage ==
    Page(<<>>,
         <<Element("nav", "Home Recipes Products Brands Contact")>>,
         <<"https://www.nestle.com/about", "/menu.pdf", "/search?q=kitkat",
           "mailto:info@madewithnestle.ca", "tel:18003878537", "/hotel:deals",
           "#main", "brands", "brands#kitkat">>)

\* <title></title>: soup.title exists and soup.title.string is None.
UntitledPage ==
    Page(<<"">>,
         <<Element("p", "A page whose title tag is empty")>>,
         <<"/brands">>)

Htmls == {HomePage, RecipesPage, NavOnlyPage, UntitledPage}

\* fetch_page returns response.text (<<html>>) or None (<<>>).
None == <<>>
Responses == {None, <<EmptyText>>} \cup { <<h>> : h \in Htmls }

\* The test `html_content is not None' in the place of line 194's truthiness.
TruthyNotNone(h) == h # None

\* `if html_content:' : neither None nor the empty string
Truthy(h) == h # None /\ ~h[1].empty

---------------------------------------------------------------------------
(* main() *)

\* The loop condition without its budget conjunct.
LoopCondNoBudget(queue, count, budget) == queue # <<>>

\* The while condition.
LoopCond(queue, count, budget) == queue # <<>> /\ count < budget

\* urls_to_visit.pop(): the back of the list in the place of its front.
PopLast(queue) == <<queue[Len(queue)], SubSeq(queue, 1, Len(queue) - 1)>>

\* urls_to_visit.pop(0): <<the popped URL, the remaining list>>
Pop(queue) == <<Head(queue), Tail(queue)>>

\* The test of line 217 without `link not in urls_to_visit'.
IsNewIgnoringQueue(link, visited, queue) == link \notin visited

\* `link not in visited_urls and link not in urls_to_visit'
IsNew(link, visited, queue) ==
    /\ link \notin visited
    /\ \A i \in 1..Len(queue) : queue[i] # link

\* for link in new_links: if <new>: urls_to_visit.append(link)
RECURSIVE AppendNew(_, _, _)
AppendNew(queue, visited, links) ==
    IF links = <<>> THEN queue
    ELSE AppendNew(IF IsNew(Head(links), visited, queue)
                   THEN Append(queue, Head(links)) ELSE queue,
                   visited, Tail(links))

\* The chunks put before the output in the place of after it.
ExtendAtFront(data, chunks) == chunks \o data

\* all_chunked_data.extend(chunks)
Extend(data, chunks) == data \o chunks

\* The failure branch without its visited_urls.add.
MarkFailedForgets(visited, u) == visited

\* visited_urls.add(current_url) of the failure branch
MarkFailed(visited, u) == visited \cup {u}

\* pages_scraped_count += 1
CountPage(count) == count + 1

CrawlInit ==
    /\ max_pages \in 1..MaxBudget
    /\ all_chunked_data = <<>>
    /\ urls_to_visit = <<BASE_URL>>
    /\ visited_urls = {}
    /\ pages_scraped_count = 0
    /\ current_url = ""
    /\ html_content = None
    /\ pc = "loop"
    /\ fetched = <<>>
    /\ scraped = <<>>
    /\ enqueued = <<BASE_URL>>
    /\ sleeps = 0
    /\ sleepsAtFetch = <<>>

history == <<fetched, scraped, enqueued, sleeps, sleepsAtFetch>>

\* The loop condition holds: pop the next URL; `continue' if it is visited.
LoopPop ==
    /\ pc = "loop"
    /\ LoopCond(urls_to_visit, pages_scraped_count, max_pages)
    /\ current_url' = Pop(urls_to_visit)[1]
    /\ urls_to_visit' = Pop(urls_to_visit)[2]
    /\ pc' = IF current_url' \in visited_urls THEN "loop" ELSE "fetch"
    /\ UNCHANGED <<visited_urls, pages_scraped_count, all_chunked_data,
                   html_content, max_pages, history,
                   filterVars>>

\* The loop condition fails: the output is saved and main returns.
LoopExit ==
    /\ pc = "loop"
    /\ ~LoopCond(urls_to_visit, pages_scraped_count, max_pages)
    /\ pc' = "done"
    /\ UNCHANGED <<urls_to_visit, visited_urls, pages_scraped_count,
                   all_chunked_data, current_url, html_content, max_pages,
                   history,
                   filterVars>>

\* html_content = fetch_page(current_url)
FetchPage ==
    /\ pc = "fetch"
    /\ \E r \in Responses : html_content' = r
    /\ fetched' = Append(fetched, current_url)
    /\ sleepsAtFetch' = Append(sleepsAtFetch, sleeps)
    /\ pc' = "branch"
    /\ UNCHANGED <<urls_to_visit, visited_urls, pages_scraped_count,
                   all_chunked_data, current_url, max_pages, scraped,
                   enqueued, sleeps,
                   filterVars>>

\* The `if html_content:' branch, up to the sleep.
ProcessPage ==
    /\ pc = "branch"
    /\ Truthy(html_content)
    /\ ~TitleRaises(html_content[1])
    /\ \E tc \in {extract_meaningful_content(html_content[1])} :
       \E docs \in create_documents(tc[2]) :
       \E chunks \in {chunk_page_content(tc[1], tc[2], current_url, docs)} :
       \E new_links \in Call(ListOfSet, extract_links(html_content[1], current_url)) :
          /\ visited_urls' = visited_urls \cup {current_url}
          /\ pages_scraped_count' = CountPage(pages_scraped_count)
          /\ all_chunked_data' = IF tc[2] # "" /\ chunks # <<>>
                                 THEN Extend(all_chunked_data, chunks)
                                 ELSE all_chunked_data
          /\ urls_to_visit' = AppendNew(urls_to_visit, visited_urls', new_links)
          /\ enqueued' = enqueued \o SubSeq(urls_to_visit', Len(urls_to_visit) + 1,
                                            Len(urls_to_visit'))
          /\ scraped' = Append(scraped,
                           [url |-> current_url, title |-> tc[1], text |-> tc[2],
                            html |-> html_content[1], docs |-> docs,
                            links |-> new_links])
    /\ pc' = "sleep"
    /\ UNCHANGED <<current_url, html_content, max_pages, fetched, sleeps, sleepsAtFetch,
                   filterVars>>

\* The `if html_content:' branch on a page whose <title> has no text: the
\* page is marked and counted, then clean_text(None) raises and main aborts.
ProcessPageRaises ==
    /\ pc = "branch"
    /\ Truthy(html_content)
    /\ TitleRaises(html_content[1])
    /\ visited_urls' = visited_urls \cup {current_url}
    /\ pages_scraped_count' = CountPage(pages_scraped_count)
    /\ pc' = "raised"
    /\ UNCHANGED <<urls_to_visit, all_chunked_data, current_url, html_content,
                   max_pages, history,
                   filterVars>>

\* time.sleep(REQUEST_DELAY), the last statement of the `if' branch
Sleep ==
    /\ pc = "sleep"
    /\ sleeps' = sleeps + 1
    /\ pc' = "loop"
    /\ UNCHANGED <<urls_to_visit, visited_urls, pages_scraped_count,
                   all_chunked_data, current_url, html_content, max_pages,
                   fetched, scraped, enqueued, sleepsAtFetch,
                   filterVars>>

\* The `else:' branch: the fetch gave no HTML.
FetchFailed ==
    /\ pc = "branch"
    /\ ~Truthy(html_content)
    /\ visited_urls' = MarkFailed(visited_urls, current_url)
    /\ pc' = "loop"
    /\ UNCHANGED <<urls_to_visit, pages_scraped_count, all_chunked_data,
                   current_url, html_content, max_pages, history,
                   filterVars>>

---------------------------------------------------------------------------
(* The URL filter on its own *)

\* A candidate URL given by its components; `slashes' tells whether "//"
\* and a host follow the scheme.
Candidates ==
    [scheme : {"http", "https", "HTTPS", "ftp"}, slashes : {TRUE},
     netloc : {"www.madewithnestle.ca", "madewithnestle.ca", "www.nestle.com"},
     path : {"", "/", "/recipes", "/menu.pdf", "/img/logo.jpeg", "/hotel:deals",
             "/menu.pdf/view"},
     query : {"", "page=2"}, fragment : {"", "top"}]
    \cup
    [scheme : {"mailto", "tel"}, slashes : {FALSE}, netloc : {""},
     path : {"info@madewithnestle.ca", "18003878537"},
     query : {""}, fragment : {""}]

Unparse(c) ==
    c.scheme \o ":" \o (IF c.slashes THEN "//" \o c.netloc ELSE "") \o c.path
    \o (IF c.query # "" THEN "?" \o c.query ELSE "")
    \o (IF c.fragment # "" THEN "#" \o c.fragment ELSE "")

NoCandidate ==
    [scheme |-> "", slashes |-> FALSE, netloc |-> "", path |-> "",
     query |-> "", fragment |-> ""]

FilterIdle == cand = NoCandidate /\ url = "" /\ verdict = "unchecked"

FilterInit ==
    /\ cand \in Candidates
    /\ url = Unparse(cand)
    /\ verdict = "unchecked"

\* verdict = is_valid_url(url)
CheckUrl ==
    /\ verdict = "unchecked"
    /\ verdict' = IF is_valid_url(url) THEN "valid" ELSE "invalid"
    /\ UNCHANGED <<cand, url, crawlVars>>

---------------------------------------------------------------------------
(* Specifications *)

Init == CrawlInit /\ FilterIdle

Next ==
    \/ LoopPop
    \/ LoopExit
    \/ FetchPage
    \/ ProcessPage
    \/ ProcessPageRaises
    \/ Sleep
    \/ FetchFailed

\* A crawl run.
Spec == Init /\ [][Next]_vars

\* A crawl run in which main() keeps executing.
FairSpec == Spec /\ WF_vars(Next)

FilterSpecInit == CrawlInit /\ max_pages = MaxBudget /\ FilterInit

FilterNext == CheckUrl

\* is_valid_url applied to a candidate URL.
FilterSpec == FilterSpecInit /\ [][FilterNext]_vars

---------------------------------------------------------------------------
(* Properties *)

NoDuplicates(seq) == \A i, j \in 1..Len(seq) : i # j => seq[i] # seq[j]

Range(seq) == { seq[i] : i \in 1..Len(seq) }

IsPrefix(a, b) == Len(a) <= Len(b) /\ SubSeq(b, 1, Len(a)) = a

\* fetch_page gave no HTML: None, or an empty response text.
NoHtml == html_content = None \/ html_content[1].empty

\* The URLs whose page was processed.
ScrapedUrls == { scraped[i].url : i \in 1..Len(scraped) }

\* C1: in every crawl run fetch_page is invoked at most once per URL,
\* whatever the links found and whatever fetches fail.
C1_FetchedAtMostOnce == NoDuplicates(fetched)

\* Two distinct processed pages both link to a third URL, that URL has been
\* fetched, and some other fetch of the run failed.
C1_Witness ==
    /\ \E i, j \in 1..Len(scraped) : \E u \in Range(fetched) :
          /\ i # j
          /\ u \notin {scraped[i].url, scraped[j].url}
          /\ u \in Range(scraped[i].links) \cap Range(scraped[j].links)
    /\ Range(fetched) \ ScrapedUrls # {}
    /\ pc = "done"

\* C2 as stated: at termination at most max_pages pages have been fetched,
\* every invocation of fetch_page counted as a page fetched.
C2_AtMostBudgetFetches ==
    pc \in {"done", "raised"} => Len(fetched) <= max_pages

\* C2: for every page budget the crawl loop terminates; the counter never
\* exceeds the budget and no more pages than the budget are fetched with
\* success and processed (a failed fetch consumes no budget); no fetch is
\* started once the counter has reached the budget; and the loop is left
\* exactly when the queue is empty or the counter has reached the budget.
C2_BudgetTermination ==
    /\ <>(pc \in {"done", "raised"})
    /\ [](/\ pages_scraped_count <= max_pages
          /\ Len(scraped) <= max_pages
          /\ (pc \in {"fetch", "branch"} => pages_scraped_count < max_pages)
          /\ (pc = "done" =>
                urls_to_visit = <<>> \/ pages_scraped_count = max_pages))
    /\ [][pc = "loop" /\ (urls_to_visit = <<>> \/ pages_scraped_count >= max_pages)
            => pc' = "done"]_vars

\* The run ended on the budget with a link still queued, after a fetch that
\* failed.
C2_Witness ==
    /\ pc = "done"
    /\ pages_scraped_count = max_pages
    /\ urls_to_visit # <<>>
    /\ Len(fetched) > max_pages
    /\ max_pages >= 2

\* C3: when fetch_page gives no HTML, the URL is marked visited, the counter,
\* the output and the queue stay as they are and the loop goes on; the
\* visited set only grows and fetch_page is never invoked on a visited URL,
\* so the URL is not fetched again.
C3_FailedFetchSkipped ==
    [][/\ (pc = "branch" /\ NoHtml) =>
            /\ visited_urls' = visited_urls \cup {current_url}
            /\ pages_scraped_count' = pages_scraped_count
            /\ all_chunked_data' = all_chunked_data
            /\ urls_to_visit' = urls_to_visit
            /\ pc' = "loop"
       /\ visited_urls \subseteq visited_urls'
       /\ (fetched' # fetched =>
             /\ fetched' = Append(fetched, current_url)
             /\ current_url \notin visited_urls)]_vars

\* A URL whose fetch failed is marked, the loop went on to fetch a page that
\* links to it, and the run ended without fetching it again.
C3_Witness ==
    /\ pc = "done"
    /\ \E i \in 1..Len(fetched) : \E j \in 1..Len(scraped) :
          /\ fetched[i] \notin ScrapedUrls
          /\ fetched[i] \in visited_urls
          /\ fetched[i] \in Range(scraped[j].links)
          /\ \E k \in (i + 1)..Len(fetched) : fetched[k] = scraped[j].url

\* C4: every page whose fetch succeeds (fetch_page returned the response
\* text) is added to the visited set and increments the counter by one,
\* whatever the page contains.
C4_SuccessAlwaysCounted ==
    [][(pc = "branch" /\ html_content # None) =>
          /\ current_url \in visited_urls'
          /\ pages_scraped_count' = pages_scraped_count + 1]_vars

\* The host of the seed URL.
SeedHost == "www.madewithnestle.ca"

\* The scope of the crawl as C5 states it, on the components of a candidate.
InScope(c) ==
    /\ c.scheme \in {"http", "https", "HTTP", "HTTPS"}
    /\ c.slashes /\ c.netloc = SeedHost
    /\ ~(\E x \in DisallowedExtensions : EndsWith(c.path, x))
    /\ c.query = ""

\* C5: is_valid_url is false for a scheme other than http/https, another
\* host, a path ending in a disallowed extension, a non-empty query and a
\* mailto:/tel: link, and true for every other URL.
C5_ScopeFilter == verdict # "unchecked" => (verdict = "valid" <=> InScope(cand))

\* The links discovered so far: from a processed page to each of its links.
Successors(S) ==
    UNION { Range(scraped[i].links) : i \in { k \in 1..Len(scraped) : scraped[k].url \in S } }

\* Link distance from the seed: breadth-first levels over the discovered links.
RECURSIVE DistFrom(_, _, _, _)
DistFrom(u, frontier, seen, d) ==
    IF u \in frontier THEN d
    ELSE IF frontier = {} THEN d + Len(fetched) + Len(enqueued)
    ELSE DistFrom(u, Successors(frontier) \ (seen \cup frontier), seen \cup frontier, d + 1)

Dist(u) == DistFrom(u, {BASE_URL}, {}, 0)

\* C6: pages are fetched in breadth-first order: a page fetched earlier is
\* never farther from the seed than a page fetched later.
C6_BreadthFirst ==
    \A i, j \in 1..Len(fetched) : i < j => Dist(fetched[i]) <= Dist(fetched[j])

\* URLs at distance 0, 1 and 2 were fetched, two of them at distance 1.
C6_Witness ==
    /\ Len(fetched) >= 4
    /\ Dist(fetched[2]) = 1
    /\ Dist(fetched[3]) = 1
    /\ Dist(fetched[4]) = 2

\* The block of chunks a processed page owes to the output.
ExpectedBlock(s) ==
    IF s.text = "" THEN <<>>
    ELSE [i \in 1..Len(s.docs) |->
            [url |-> s.url, title |-> s.title, chunk_id |-> i - 1, text |-> s.docs[i]]]

RECURSIVE Blocks(_)
Blocks(pages) ==
    IF pages = <<>> THEN <<>> ELSE ExpectedBlock(Head(pages)) \o Blocks(Tail(pages))

\* C7: the output is, at every point, the blocks of the processed pages in
\* processing order, each block carrying the page's url and title and the
\* chunk ids 0, 1, ..., and every step only appends to it.
C7_OutputInVisitOrder ==
    /\ [](all_chunked_data = Blocks(scraped))
    /\ [][IsPrefix(all_chunked_data, all_chunked_data')]_vars

\* Three pages were processed: one with an empty body, and two with chunks,
\* one of them with two chunks.
C7_Witness ==
    /\ Len(scraped) = 3
    /\ \E i \in 1..3 : scraped[i].text = ""
    /\ \E i, j \in 1..Len(all_chunked_data) :
          /\ all_chunked_data[i].url # all_chunked_data[j].url
          /\ all_chunked_data[j].chunk_id = 1

\* C8: between any two consecutive invocations of fetch_page there is
\* exactly one delay.
C8_DelayAfterEveryFetch ==
    \A i \in 2..Len(sleepsAtFetch) : sleepsAtFetch[i] = sleepsAtFetch[i - 1] + 1

\* C9: at the start of every iteration the queue holds no URL twice and no
\* visited URL, and no URL is ever put on the queue twice.
C9_FrontierInvariant ==
    /\ pc = "loop" =>
          /\ NoDuplicates(urls_to_visit)
          /\ Range(urls_to_visit) \cap visited_urls = {}
    /\ NoDuplicates(enqueued)

\* At the start of an iteration with URLs queued and visited, after a page
\* linked to a visited URL and a page linked to a queued URL.
C9_Witness ==
    /\ pc = "loop"
    /\ urls_to_visit # <<>>
    /\ \E i, j \in 1..Len(scraped) :
          /\ i < j
          /\ scraped[i].url \in Range(scraped[j].links)
          /\ Range(scraped[i].links) \cap Range(scraped[j].links)
                \cap Range(urls_to_visit) # {}

\* The in-scope links of a page in first-seen order of its anchors.
RECURSIVE FirstSeen(_, _, _)
FirstSeen(anchors, cur, acc) ==
    IF anchors = <<>> THEN acc
    ELSE IF /\ is_valid_url(urljoin(cur, Head(anchors)))
            /\ StripFragment(urljoin(cur, Head(anchors))) \notin Range(acc)
         THEN FirstSeen(Tail(anchors), cur,
                        Append(acc, StripFragment(urljoin(cur, Head(anchors)))))
         ELSE FirstSeen(Tail(anchors), cur, acc)

\* C10: extract_links returns the links of a page in the first-seen order
\* of its anchors, the same for the same page.
C10_LinksInFirstSeenOrder ==
    \A i \in 1..Len(scraped) :
        scraped[i].links = FirstSeen(scraped[i].html.anchors, scraped[i].url, <<>>)

============================================================================
